---- MODULE Spec2Model ----
(***************************************************************************)
(* A model of veneur's command (main), of its OpenTracing adapter          *)
(* (package trace: Tracer, Span, spanContext) and of the aggregation       *)
(* worker the design document describes.                                   *)
(*                                                                         *)
(* Four specifications share the module's variables; each one moves its    *)
(* own component and leaves the others' variables alone:                   *)
(*   SpecMain    the control flow of main                                  *)
(*   SpecTracer  Tracer.StartSpan and Tracer.Inject over a pool of spans   *)
(*   SpecSpan    concurrent Span.SetTag / Span.LogFields on one span       *)
(*   SpecWorker  a worker's ingress channel, submit and snapshot           *)
(***************************************************************************)
EXTENDS Integers, Sequences, FiniteSets, TLC

VARIABLES
    \* ---- main ----
    pc,          \* the line main is at
    configFile,  \* *configFile, the value of the -f flag
    conf,        \* the Config ReadConfig returned
    err,         \* main's err variable
    sentry,      \* main's local sentry client: "nil" or "client"
    calls,       \* the veneur functions main has called so far
    exitStatus,  \* the process's exit status, -1 while it runs
    exitCause,   \* which statement ended the process
    \* ---- trace: Tracer ----
    spans,       \* the Spans created so far
    last,        \* the last call on the Tracer: its arguments and its outcome
    \* ---- trace: one Span mutated by several tasks ----
    sTags,       \* s.Tags
    sLogLines,   \* s.logLines
    task,        \* each task's position, pending call and local slice copy
    issued,      \* the calls issued so far, in issue order
    \* ---- worker ----
    wchan,       \* the worker's bounded ingress channel
    wm,          \* the worker's current accumulator map
    returned,    \* the maps snapshot() has returned, in order
    log,         \* every sample folded so far, with the epoch it was folded in
    nextId,      \* the identity of the next sample the listener hands off
    overflow,    \* the ingest-overflow counter
    lastOp       \* the worker operation that produced this state

mainVars == <<pc, configFile, conf, err, sentry, calls, exitStatus, exitCause>>
tracerVars == <<spans, last>>
spanVars == <<sTags, sLogLines, task, issued>>
workerVars == <<wchan, wm, returned, log, nextId, overflow, lastOp>>
vars == <<mainVars, tracerVars, spanVars, workerVars>>

\* What each component's steps leave alone: the other components.
MainOnly == UNCHANGED <<tracerVars, spanVars, workerVars>>

TracerOnly == UNCHANGED <<mainVars, spanVars, workerVars>>

SpanOnly == UNCHANGED <<mainVars, tracerVars, workerVars>>

WorkerOnly == UNCHANGED <<mainVars, tracerVars, spanVars>>

(***************************************************************************)
(* main                                                                    *)
(***************************************************************************)

\* The command lines main is started with: no -f at all, -f "", -f with a
\* path, and a command line flag.Parse rejects.
Argv == {"none", "empty", "veneur.yaml", "other.yaml", "badflag"}

\* The flag's default is "" (flag.String("f", "", ...)).
FlagValue(a) == IF a \in {"none", "empty"} THEN "" ELSE a

\* The fields of Config that main reads.
Configs == [SentryDsn : {"", "dsn"}, HTTPAddress : {"", "addr"}]

NoConf == [SentryDsn |-> "", HTTPAddress |-> ""]

MainInit ==
    /\ pc = "L23"
    /\ configFile = ""
    /\ conf = NoConf
    /\ err = "nil"
    /\ sentry = "nil"
    /\ calls = {}
    /\ exitStatus = -1
    /\ exitCause = "running"

\* os.Exit(status): nothing of main runs after it.
Exit(status, cause) ==
    /\ pc' = "exited"
    /\ exitStatus' = status
    /\ exitCause' = cause

\* logrus.Fatal: logs, then os.Exit(1).
Fatal(cause) == Exit(1, cause)

\* line 23: flag.Parse(). The command line's flag set exits with status 2
\* on a command line it cannot parse.
FlagParse ==
    /\ MainOnly
    /\ pc = "L23"
    /\ \E a \in Argv :
         IF a = "badflag"
         THEN /\ Exit(2, "usage")
              /\ UNCHANGED configFile
         ELSE /\ configFile' = FlagValue(a)
              /\ pc' = "L25"
              /\ UNCHANGED <<exitStatus, exitCause>>
    /\ UNCHANGED <<conf, err, sentry, calls>>

\* A slip of lines 25-27: the missing flag is logged, not fatal.
CheckFlagLogOnly ==
    /\ MainOnly
    /\ pc = "L25"
    /\ pc' = "L29"
    /\ UNCHANGED <<configFile, conf, err, sentry, calls, exitStatus, exitCause>>

\* lines 25-27: no config file named is fatal.
CheckFlag ==
    /\ MainOnly
    /\ pc = "L25"
    /\ IF configFile = ""
       THEN Fatal("noflag")
       ELSE /\ pc' = "L29"
            /\ UNCHANGED <<exitStatus, exitCause>>
    /\ UNCHANGED <<configFile, conf, err, sentry, calls>>

\* line 29: conf, err := veneur.ReadConfig(*configFile)
ReadConfig ==
    /\ MainOnly
    /\ pc = "L29"
    /\ calls' = calls \cup {"ReadConfig"}
    /\ \/ /\ err' = "readerr"
          /\ UNCHANGED conf
       \/ /\ err' = "nil"
          /\ \E c \in Configs : conf' = c
    /\ pc' = "L30"
    /\ UNCHANGED <<configFile, sentry, exitStatus, exitCause>>

\* lines 30-32: an error reading the config file is fatal.
CheckReadErr ==
    /\ MainOnly
    /\ pc = "L30"
    /\ IF err # "nil"
       THEN Fatal("readerr")
       ELSE /\ pc' = "L34"
            /\ UNCHANGED <<exitStatus, exitCause>>
    /\ UNCHANGED <<configFile, conf, err, sentry, calls>>

\* lines 34-35: server, err := veneur.NewFromConfig(conf)
NewFromConfig ==
    /\ MainOnly
    /\ pc = "L34"
    /\ calls' = calls \cup {"NewFromConfig"}
    /\ \/ /\ err' = "initerr"
          /\ pc' = "L39"
       \/ /\ err' = "nil"
          /\ pc' = "L62"
    /\ UNCHANGED <<configFile, conf, sentry, exitStatus, exitCause>>

\* lines 36-45: the Sentry client is built when a DSN is configured;
\* raven.New's error overwrites err (the server's error is kept in e).
InitSentry ==
    /\ MainOnly
    /\ pc = "L39"
    /\ IF conf.SentryDsn # ""
       THEN \/ /\ sentry' = "client"
               /\ err' = "nil"
            \/ /\ sentry' = "nil"
               /\ err' = "sentryerr"
       ELSE UNCHANGED <<sentry, err>>
    /\ pc' = "L54"
    /\ UNCHANGED <<configFile, conf, calls, exitStatus, exitCause>>

\* lines 47-58: the packet is captured and main waits for the answer or
\* for ten seconds, whichever comes first.
CaptureAndWait ==
    /\ MainOnly
    /\ pc = "L54"
    /\ \E how \in {"answered", "timeout"} : pc' = "L60"
    /\ UNCHANGED <<configFile, conf, err, sentry, calls, exitStatus, exitCause>>

\* line 60: logrus.WithError(e).Fatal("Could not initialize server")
FatalInit ==
    /\ MainOnly
    /\ pc = "L60"
    /\ Fatal("initerr")
    /\ UNCHANGED <<configFile, conf, err, sentry, calls>>

\* veneur.ConsumePanic, run by main's deferred function with recover()'s
\* value: it reports the panic and either returns (main ends, status 0) or
\* panics again (the runtime ends the process with status 2).
ConsumePanic ==
    \E status \in {0, 2} : Exit(status, "panic")

\* line 65: server.Start(), which returns or panics.
Start ==
    /\ MainOnly
    /\ pc = "L62"
    /\ calls' = calls \cup {"Start"}
    /\ \/ /\ pc' = "L67"
          /\ UNCHANGED <<exitStatus, exitCause>>
       \/ ConsumePanic
    /\ UNCHANGED <<configFile, conf, err, sentry>>

\* lines 67-71: with an HTTP address main serves HTTP, else it blocks.
ServeOrBlock ==
    /\ MainOnly
    /\ pc = "L67"
    /\ IF conf.HTTPAddress # ""
       THEN /\ pc' = "L68"
            /\ calls' = calls \cup {"HTTPServe"}
       ELSE /\ pc' = "L70"
            /\ UNCHANGED calls
    /\ UNCHANGED <<configFile, conf, err, sentry, exitStatus, exitCause>>

\* line 68: server.HTTPServe() returns (main returns, the deferred
\* ConsumePanic sees no panic, status 0) or panics.
HTTPServe ==
    /\ MainOnly
    /\ pc = "L68"
    /\ \/ Exit(0, "return")
       \/ ConsumePanic
    /\ UNCHANGED <<configFile, conf, err, sentry, calls>>

MainNext ==
    \/ FlagParse
    \/ CheckFlag
    \/ ReadConfig
    \/ CheckReadErr
    \/ NewFromConfig
    \/ InitSentry
    \/ CaptureAndWait
    \/ FatalInit
    \/ Start
    \/ ServeOrBlock
    \/ HTTPServe

(***************************************************************************)
(* package trace: strings, integers and their conversions                  *)
(*                                                                         *)
(* A Go string is a sequence of one-character strings; map keys are kept   *)
(* as TLA+ strings.                                                        *)
(***************************************************************************)

DigitChar == <<"0", "1", "2", "3", "4", "5", "6", "7", "8", "9">>

IsDigit(c) == \E d \in 1..10 : DigitChar[d] = c

DigitVal(c) == (CHOOSE d \in 1..10 : DigitChar[d] = c) - 1

RECURSIVE FormatNat(_)
FormatNat(n) ==
    IF n < 10
    THEN <<DigitChar[n + 1]>>
    ELSE Append(FormatNat(n \div 10), DigitChar[(n % 10) + 1])

\* strconv.FormatInt(i, 10)
FormatInt(i) == IF i < 0 THEN <<"-">> \o FormatNat(-i) ELSE FormatNat(i)

RECURSIVE DigitsVal(_)
DigitsVal(s) ==
    IF s = <<>>
    THEN 0
    ELSE 10 * DigitsVal(SubSeq(s, 1, Len(s) - 1)) + DigitVal(s[Len(s)])

\* strconv.ParseInt(s, 10, 64): an optional sign, then one or more decimal
\* digits; anything else is an error. (The values of the model are far from
\* the 64-bit range.)
ParseInt(s) ==
    LET signed == s # <<>> /\ s[1] \in {"+", "-"}
        digits == IF signed THEN Tail(s) ELSE s
        ok == digits # <<>> /\ \A i \in 1..Len(digits) : IsDigit(digits[i])
    IN  IF ~ok
        THEN [ok |-> FALSE, val |-> 0]
        ELSE [ok |-> TRUE,
              val |-> IF signed /\ s[1] = "-"
                      THEN 0 - DigitsVal(digits)
                      ELSE DigitsVal(digits)]

\* strings.ToLower on the keys the model uses.
ToLower(k) ==
    CASE k = "TraceId" -> "traceid"
      [] k = "ParentId" -> "parentid"
      [] k = "SpanId" -> "spanid"
      [] k = "Resource" -> "resource"
      [] OTHER -> k

EmptyMap == [k \in {} |-> <<>>]

\* m with m[k] = v set, as a Go map assignment does.
MapSet(m, k, v) ==
    [x \in DOMAIN m \cup {k} |-> IF x = k THEN v ELSE m[x]]

(***************************************************************************)
(* package trace: spanContext                                              *)
(***************************************************************************)

\* spanContext.parseBaggageInt64: the map is walked in Go's unspecified
\* order; the first key equal to `key` (ignoring case) whose value parses
\* ends the walk, a key whose value does not parse is passed over. The set
\* of results the walk can end with.
parseBaggageInt64(c, key) ==
    LET hits == {k \in DOMAIN c.baggageItems :
                    /\ ToLower(k) = ToLower(key)
                    /\ ParseInt(c.baggageItems[k]).ok}
    IN  IF hits = {}
        THEN {0}
        ELSE {ParseInt(c.baggageItems[k]).val : k \in hits}

TraceIdOf(c) == parseBaggageInt64(c, "traceid")

ParentIdOf(c) == parseBaggageInt64(c, "parentid")

SpanIdOf(c) == parseBaggageInt64(c, "spanid")

\* spanContext.Resource
ResourceOf(c) ==
    LET hits == {k \in DOMAIN c.baggageItems : ToLower(k) = "resource"}
    IN  IF hits = {} THEN {<<>>} ELSE {c.baggageItems[k] : k \in hits}

\* Span.contextAsParent (and Span.Context, which returns it).
contextAsParent(s) ==
    [kind |-> "spanContext",
     baggageItems |->
        MapSet(MapSet(MapSet(EmptyMap,
            "traceid", FormatInt(s.TraceId)),
            "parentid", FormatInt(s.ParentId)),
            "resource", s.Resource)]

\* A SpanContext of another tracer's implementation.
ForeignContext == [kind |-> "foreign", baggageItems |-> EmptyMap]

(***************************************************************************)
(* package trace: Span                                                     *)
(***************************************************************************)

\* The values SetTag is given: a string, a fmt.Stringer, anything else
\* (rendered with %#v).
TagValues ==
    {[type |-> "string", str |-> <<"x">>, goSyntax |-> <<"\"", "x", "\"">>],
     [type |-> "stringer", str |-> <<"y">>, goSyntax |-> <<"T", "{", "}">>],
     [type |-> "other", str |-> <<>>, goSyntax |-> <<"7">>]}

\* The switch of Span.SetTag, lines 190-198.
TagValue(v) ==
    CASE v.type = "string" -> v.str
      [] v.type = "stringer" -> v.str
      [] OTHER -> v.goSyntax

\* ssf.SSFTag{Name: key, Value: ...}
NewTag(key, v) == [Name |-> key, Value |-> TagValue(v)]

(***************************************************************************)
(* package trace: Tracer.StartSpan                                         *)
(***************************************************************************)

MaxSpans == 2
MinId == 9
MaxId == 10
MaxTime == 2
MaxOpts == 2

\* The values rand.Int63 draws span ids from (a window of its range that
\* holds one- and two-digit numbers).
RandIds == MinId..MaxId

\* The clock's readings. 0 is the zero time.Time, which the clock never
\* reads.
Times == 1..MaxTime

OperationNames == {<<"g", "e", "t">>, <<"p", "u", "t">>}

TagKeys == {"k1"}

\* The options a caller passes: customSpanStart(t), customSpanTags(k, v),
\* and a reference (opentracing.ChildOf / FollowsFrom, or a reference of
\* some other type) to the Context() of the span at index `of`, or (of = 0)
\* to another tracer's SpanContext.
StartOptions ==
    [opt : {"StartTime"}, t : {0} \cup Times]
    \cup [opt : {"Tag"}, k : TagKeys, v : {tv \in TagValues : tv.type = "string"}]
    \cup [opt : {"Ref"}, Type : {"ChildOf", "FollowsFrom", "Unknown"},
          of : 0..Len(spans)]

OptionLists == UNION {[1..n -> StartOptions] : n \in 0..MaxOpts}

\* The context a reference option carries.
ReferencedContext(o) ==
    IF o.of = 0 THEN ForeignContext ELSE contextAsParent(spans[o.of])

\* line 295: the options before any is applied.
NewStartSpanOptions ==
    [References |-> <<>>, StartTime |-> 0, Tags |-> EmptyMap]

\* spanOption.Apply for the three kinds of option (lines 259-287).
Apply(o, sso) ==
    CASE o.opt = "StartTime" -> [sso EXCEPT !.StartTime = o.t]
      [] o.opt = "Tag" -> [sso EXCEPT !.Tags = MapSet(sso.Tags, o.k, o.v)]
      [] OTHER ->
           [sso EXCEPT !.References =
               Append(sso.References,
                      [Type |-> o.Type, of |-> o.of,
                       ReferencedContext |-> ReferencedContext(o)])]

\* lines 298-300
RECURSIVE ApplyAll(_, _)
ApplyAll(opts, sso) ==
    IF opts = <<>> THEN sso ELSE ApplyAll(Tail(opts), Apply(Head(opts), sso))

\* Trace{}: Go's zero value.
ZeroTrace ==
    [TraceId |-> 0, SpanId |-> 0, ParentId |-> 0, Resource |-> <<>>,
     Start |-> 0, Tags |-> <<>>]

\* The body of the loop at lines 315-333 for one reference: the parent
\* records it can leave.
ParentAfter(parent, ref) ==
    IF ref.Type \in {"FollowsFrom", "ChildOf"}
       /\ ref.ReferencedContext.kind = "spanContext"
    THEN {[parent EXCEPT !.TraceId = tid, !.SpanId = sid, !.Resource = res] :
             tid \in TraceIdOf(ref.ReferencedContext),
             sid \in ParentIdOf(ref.ReferencedContext),
             res \in ResourceOf(ref.ReferencedContext)}
    ELSE {parent}

\* lines 312-333: the parent records the loop over the references can end
\* with.
RECURSIVE ParentsFrom(_, _)
ParentsFrom(parent, refs) ==
    IF refs = <<>>
    THEN {parent}
    ELSE UNION {ParentsFrom(p, Tail(refs)) : p \in ParentAfter(parent, Head(refs))}

\* trace.StartTrace(resource): a new trace's root, started now.
StartTrace(resource, id, now) ==
    [TraceId |-> id, SpanId |-> id, ParentId |-> 0, Resource |-> resource,
     Start |-> now, Tags |-> <<>>]

\* trace.StartChildSpan(parent): a span of the parent's trace, under the
\* parent, started now.
StartChildSpan(parent, id, now) ==
    [TraceId |-> parent.TraceId, SpanId |-> id, ParentId |-> parent.SpanId,
     Resource |-> parent.Resource, Start |-> now, Tags |-> <<>>]

\* The orders a Go map of tags can be walked in.
TagOrders(tags) ==
    {q \in [1..Cardinality(DOMAIN tags) -> DOMAIN tags] :
        \A i, j \in DOMAIN q : i # j => q[i] # q[j]}

RECURSIVE SetTags(_, _, _)
SetTags(trace, tags, order) ==
    IF order = <<>>
    THEN trace
    ELSE SetTags([trace EXCEPT !.Tags = Append(@, NewTag(Head(order), tags[Head(order)]))],
                 tags, Tail(order))

\* Tracer.StartSpan, lines 292-353.
StartSpan ==
    /\ TracerOnly
    /\ Len(spans) < MaxSpans
    /\ \E name \in OperationNames, opts \in OptionLists,
          id \in RandIds, now \in Times :
         LET sso == ApplyAll(opts, NewStartSpanOptions)
         IN  IF Len(sso.References) = 0
             THEN LET span == StartTrace(name, id, now)
                  IN  /\ spans' = Append(spans, span)
                      /\ last' = [op |-> "StartSpan", sso |-> sso,
                                  root |-> TRUE, parent |-> ZeroTrace,
                                  span |-> span]
             ELSE \E parent \in ParentsFrom(ZeroTrace, sso.References),
                     order \in TagOrders(sso.Tags) :
                    LET trace == StartChildSpan(parent, id, now)
                        timed == IF sso.StartTime # 0
                                 THEN [trace EXCEPT !.Start = sso.StartTime]
                                 ELSE trace
                        span == SetTags(timed, sso.Tags, order)
                    IN  /\ spans' = Append(spans, span)
                        /\ last' = [op |-> "StartSpan", sso |-> sso,
                                    root |-> FALSE, parent |-> parent,
                                    span |-> span]

(***************************************************************************)
(* package trace: Tracer.Inject                                            *)
(***************************************************************************)

Formats == {"Binary", "TextMap", "HTTPHeaders", "Custom"}

\* The carriers Inject is given: what the value implements, and for a text
\* map what it holds already.
Carriers ==
    [isWriter : BOOLEAN, isTextMap : {FALSE}, map : {EmptyMap}, written : {<<>>}]
    \cup [isWriter : {FALSE}, isTextMap : {TRUE},
          map : {EmptyMap, MapSet(EmptyMap, "traceid", <<"1">>)},
          written : {<<>>}]

\* textMapReaderWriter.CloneTo: every pair is Set on the writer.
CloneTo(t, w) ==
    [k \in DOMAIN w \cup DOMAIN t |-> IF k \in DOMAIN t THEN t[k] ELSE w[k]]

\* Trace.ProtoMarshalTo(w): the trace's protobuf encoding is written to w,
\* unless the writer fails.
ProtoMarshalTo(trace, carrier, fails) ==
    IF fails
    THEN [err |-> "WriteError", carrier |-> carrier]
    ELSE [err |-> "nil",
          carrier |-> [carrier EXCEPT !.written = Append(@, trace)]]

\* Tracer.Inject, lines 359-394: the outcomes [err, carrier] of a call.
Inject(sm, format, carrier) ==
    IF sm.kind # "spanContext"
    THEN {[err |-> "ErrUnsupportedSpanContext", carrier |-> carrier]}
    ELSE IF format = "Binary"
    THEN IF ~carrier.isWriter
         THEN \* carrier.(io.Writer) panics; the deferred function recovers
              {[err |-> "ErrContractViolation", carrier |-> carrier]}
         ELSE {ProtoMarshalTo([TraceId |-> tid, ParentId |-> pid,
                               SpanId |-> sid, Resource |-> res],
                              carrier, fails) :
                  tid \in TraceIdOf(sm), pid \in ParentIdOf(sm),
                  sid \in SpanIdOf(sm), res \in ResourceOf(sm),
                  fails \in BOOLEAN}
    ELSE IF carrier.isTextMap
    THEN {[err |-> "nil",
           carrier |-> [carrier EXCEPT !.map = CloneTo(sm.baggageItems, @)]]}
    ELSE {[err |-> "ErrUnsupportedFormat", carrier |-> carrier]}

\* The SpanContexts Inject is given: a span's Context(), or another
\* tracer's.
InjectContexts ==
    {ForeignContext} \cup {contextAsParent(spans[i]) : i \in 1..Len(spans)}

InjectCall ==
    /\ TracerOnly
    /\ \E sm \in InjectContexts, format \in Formats, carrier \in Carriers :
         \E out \in Inject(sm, format, carrier) :
            last' = [op |-> "Inject", sm |-> sm, format |-> format,
                     carrier |-> carrier, err |-> out.err,
                     after |-> out.carrier]
    /\ UNCHANGED spans

TracerInit ==
    /\ spans = <<>>
    /\ last = [op |-> "none"]

TracerNext ==
    \/ StartSpan
    \/ InjectCall

(***************************************************************************)
(* package trace: Span.SetTag and Span.LogFields called by several tasks   *)
(* on one Span. Neither takes a lock ("TODO mutex"): the statement         *)
(*     s.Tags = append(s.Tags, &tag)                                       *)
(* reads the slice and stores the appended slice in two steps, and another *)
(* task's steps may fall between them.                                     *)
(***************************************************************************)

NumTasks == 2
MaxCalls == 2

Tasks == 1..NumTasks

SetTagKeys == {"k1", "k2"}

\* The arguments of a LogFields call: one field or two.
FieldLists == {<<"f1">>, <<"f2", "f3">>}

IdleTask == [pc |-> "idle", tag |-> <<>>, fields |-> <<>>, local |-> <<>>, calls |-> 0]

\* Span.SetTag, lines 188-199, up to the read of s.Tags in the append.
SetTagRead(t) ==
    /\ SpanOnly
    /\ task[t].pc = "idle"
    /\ task[t].calls < MaxCalls
    /\ \E key \in SetTagKeys, value \in TagValues :
         LET tag == NewTag(key, value)
         IN  /\ task' = [task EXCEPT ![t] =
                    [pc |-> "SetTag", tag |-> <<tag>>, fields |-> <<>>,
                     local |-> sTags, calls |-> @.calls + 1]]
             /\ issued' = Append(issued, [op |-> "SetTag", tag |-> <<tag>>,
                                          fields |-> <<>>])
    /\ UNCHANGED <<sTags, sLogLines>>

\* Span.SetTag, line 199: the appended slice is stored in s.Tags.
SetTagStore(t) ==
    /\ SpanOnly
    /\ task[t].pc = "SetTag"
    /\ sTags' = task[t].local \o task[t].tag
    /\ task' = [task EXCEPT ![t].pc = "idle", ![t].tag = <<>>, ![t].local = <<>>]
    /\ UNCHANGED <<sLogLines, issued>>

\* Span.LogFields, line 207, up to the read of s.logLines.
LogFieldsRead(t) ==
    /\ SpanOnly
    /\ task[t].pc = "idle"
    /\ task[t].calls < MaxCalls
    /\ \E fields \in FieldLists :
         /\ task' = [task EXCEPT ![t] =
                [pc |-> "LogFields", tag |-> <<>>, fields |-> fields,
                 local |-> sLogLines, calls |-> @.calls + 1]]
         /\ issued' = Append(issued, [op |-> "LogFields", tag |-> <<>>,
                                      fields |-> fields])
    /\ UNCHANGED <<sTags, sLogLines>>

\* Span.LogFields, line 207: the appended slice is stored in s.logLines.
LogFieldsStore(t) ==
    /\ SpanOnly
    /\ task[t].pc = "LogFields"
    /\ sLogLines' = task[t].local \o task[t].fields
    /\ task' = [task EXCEPT ![t].pc = "idle", ![t].fields = <<>>, ![t].local = <<>>]
    /\ UNCHANGED <<sTags, issued>>

SpanInit ==
    /\ sTags = <<>>
    /\ sLogLines = <<>>
    /\ task = [t \in Tasks |-> IdleTask]
    /\ issued = <<>>

SpanNext ==
    \E t \in Tasks :
        \/ SetTagRead(t)
        \/ SetTagStore(t)
        \/ LogFieldsRead(t)
        \/ LogFieldsStore(t)

(***************************************************************************)
(* The aggregation worker of the design document (sections 3, 4.4, 4.5):   *)
(* a bounded ingress channel, submit, snapshot.                            *)
(***************************************************************************)

MaxSamples == 3
ChanCap == 1
MaxTicks == 2

Kinds == {"Counter", "Gauge", "Set", "Histogram", "Timer", "Status"}

\* The samples the listener hands off. value is the numeric value (or the
\* Status level), bytes the Set member (or the Status message), invRate
\* 1/sample_rate.
SampleUniverse ==
    {[kind |-> "Counter", value |-> 1, bytes |-> <<>>, invRate |-> 1],
     [kind |-> "Counter", value |-> 2, bytes |-> <<>>, invRate |-> 2],
     [kind |-> "Gauge", value |-> 5, bytes |-> <<>>, invRate |-> 1],
     [kind |-> "Gauge", value |-> 2, bytes |-> <<>>, invRate |-> 1],
     [kind |-> "Set", value |-> 0, bytes |-> <<"a">>, invRate |-> 1],
     [kind |-> "Set", value |-> 0, bytes |-> <<"b">>, invRate |-> 1],
     [kind |-> "Histogram", value |-> 1, bytes |-> <<>>, invRate |-> 1],
     [kind |-> "Histogram", value |-> 3, bytes |-> <<>>, invRate |-> 1],
     [kind |-> "Timer", value |-> 2, bytes |-> <<>>, invRate |-> 1],
     [kind |-> "Status", value |-> 0, bytes |-> <<"o", "k">>, invRate |-> 1],
     [kind |-> "Status", value |-> 2, bytes |-> <<"d", "n">>, invRate |-> 1]}

\* MetricKey: (name, kind, sorted_tags). The samples of the model share one
\* name and one tag list, so the kind tells the keys apart.
MetricKey(s) == <<"m", s.kind>>

KindOf(k) == k[2]

\* An accumulator before its first sample. ids is the identities of the
\* samples folded into it.
NewAccumulator(kind) ==
    [kind |-> kind, sum |-> 0, last |-> 0, message |-> <<>>, members |-> {},
     sketch |-> <<>>, min |-> 0, max |-> 0, count |-> 0, ids |-> {}]

Min2(a, b) == IF a <= b THEN a ELSE b

Max2(a, b) == IF a >= b THEN a ELSE b

\* insert(x) on a distribution sketch, kept as the sorted list of what was
\* inserted.
RECURSIVE SketchInsert(_, _)
SketchInsert(sk, x) ==
    IF sk = <<>> THEN <<x>>
    ELSE IF x <= Head(sk) THEN <<x>> \o sk
    ELSE <<Head(sk)>> \o SketchInsert(Tail(sk), x)

\* A Counter that keeps the last increment in place of the sum.
AccumulateCounterOverwrites(acc, s) ==
    LET a == [acc EXCEPT !.ids = @ \cup {s.id}]
    IN  CASE s.kind = "Counter" -> [a EXCEPT !.sum = s.value * s.invRate]
          [] s.kind \in {"Gauge"} -> [a EXCEPT !.last = s.value]
          [] s.kind = "Set" -> [a EXCEPT !.members = @ \cup {s.bytes}]
          [] s.kind = "Status" -> [a EXCEPT !.last = s.value, !.message = s.bytes]
          [] OTHER ->
               [a EXCEPT !.sketch = SketchInsert(@, s.value),
                         !.min = IF acc.count = 0 THEN s.value ELSE Min2(@, s.value),
                         !.max = IF acc.count = 0 THEN s.value ELSE Max2(@, s.value),
                         !.count = @ + 1,
                         !.sum = @ + s.value]

\* Folding one sample into its accumulator (section 3, Accumulator).
Accumulate(acc, s) ==
    LET a == [acc EXCEPT !.ids = @ \cup {s.id}]
    IN  CASE s.kind = "Counter" -> [a EXCEPT !.sum = @ + s.value * s.invRate]
          [] s.kind \in {"Gauge"} -> [a EXCEPT !.last = s.value]
          [] s.kind = "Set" -> [a EXCEPT !.members = @ \cup {s.bytes}]
          [] s.kind = "Status" -> [a EXCEPT !.last = s.value, !.message = s.bytes]
          [] OTHER ->
               [a EXCEPT !.sketch = SketchInsert(@, s.value),
                         !.min = IF acc.count = 0 THEN s.value ELSE Min2(@, s.value),
                         !.max = IF acc.count = 0 THEN s.value ELSE Max2(@, s.value),
                         !.count = @ + 1,
                         !.sum = @ + s.value]

\* The map with no accumulator.
FreshMap == [k \in {} |-> NewAccumulator("Counter")]

\* submit's effect on a map: the accumulator is created on the first sample
\* of its key.
Fold(m, s) ==
    LET k == MetricKey(s)
        acc == IF k \in DOMAIN m THEN m[k] ELSE NewAccumulator(s.kind)
    IN  [x \in DOMAIN m \cup {k} |-> IF x = k THEN Accumulate(acc, s) ELSE m[x]]

\* The listener hands a sample to the worker's channel, and drops it when
\* the channel is full (drop-newest).
HandOff ==
    /\ WorkerOnly
    /\ nextId <= MaxSamples
    /\ \E s \in SampleUniverse :
         IF Len(wchan) < ChanCap
         THEN /\ wchan' = Append(wchan, [kind |-> s.kind, value |-> s.value,
                                         bytes |-> s.bytes, invRate |-> s.invRate,
                                         id |-> nextId])
              /\ UNCHANGED overflow
         ELSE /\ overflow' = overflow + 1
              /\ UNCHANGED wchan
    /\ nextId' = nextId + 1
    /\ lastOp' = "handoff"
    /\ UNCHANGED <<wm, returned, log>>

\* submit(sample): the worker takes the next sample of its ingress and
\* folds it into its current map.
Submit ==
    /\ WorkerOnly
    /\ wchan # <<>>
    /\ wm' = Fold(wm, Head(wchan))
    /\ wchan' = Tail(wchan)
    /\ log' = Append(log, [s |-> Head(wchan), epoch |-> Len(returned)])
    /\ lastOp' = "submit"
    /\ UNCHANGED <<returned, nextId, overflow>>

\* A snapshot that hands out the map and goes on using it.
SnapshotKeepsMap ==
    /\ WorkerOnly
    /\ Len(returned) < MaxTicks
    /\ returned' = Append(returned, wm)
    /\ wm' = wm
    /\ lastOp' = "snapshot"
    /\ UNCHANGED <<wchan, log, nextId, overflow>>

\* snapshot(): the worker's map is replaced by a fresh one and the prior
\* map is returned, in one step.
Snapshot ==
    /\ WorkerOnly
    /\ Len(returned) < MaxTicks
    /\ returned' = Append(returned, wm)
    /\ wm' = FreshMap
    /\ lastOp' = "snapshot"
    /\ UNCHANGED <<wchan, log, nextId, overflow>>

WorkerInit ==
    /\ wchan = <<>>
    /\ wm = FreshMap
    /\ returned = <<>>
    /\ log = <<>>
    /\ nextId = 1
    /\ overflow = 0
    /\ lastOp = "new"

WorkerNext ==
    \/ HandOff
    \/ Submit
    \/ Snapshot

(***************************************************************************)
(* The specifications                                                      *)
(***************************************************************************)

Init == MainInit /\ TracerInit /\ SpanInit /\ WorkerInit

SpecMain == Init /\ [][MainNext]_vars

SpecTracer == Init /\ [][TracerNext]_vars

SpecSpan == Init /\ [][SpanNext]_vars

SpecWorker == Init /\ [][WorkerNext]_vars

(***************************************************************************)
(* The properties                                                          *)
(***************************************************************************)

\* ---- main ----

\* The two configuration errors main can end with: no config file named
\* (line 26) and the config file not read (line 31).
ConfigErrors == {"noflag", "readerr"}

ServerCalls == {"NewFromConfig", "Start", "HTTPServe"}

\* C3: a configuration error is fatal at startup and only there. With the
\* -f flag missing or empty, or with ReadConfig returning an error, main has
\* ended with status 1 as soon as it is past the check, and the server was
\* neither constructed nor started (NewFromConfig, Start and HTTPServe were
\* never called); once Start has been called, main has not ended, and never
\* ends, with a configuration error.
C3_ConfigErrorFatalAtStartupOnly ==
    /\ (pc \notin {"L23", "L25"} /\ exitCause # "usage" /\ configFile = "")
          => (pc = "exited" /\ exitCause = "noflag")
    /\ (pc \notin {"L23", "L25", "L29", "L30"} /\ err = "readerr")
          => (pc = "exited" /\ exitCause = "readerr")
    /\ exitCause \in ConfigErrors
          => (exitStatus = 1 /\ calls \cap ServerCalls = {})
    /\ "Start" \in calls => exitCause \notin ConfigErrors

\* C3's case: a config file was named, it could not be read, and main has
\* ended.
C3_Witness ==
    /\ pc = "exited"
    /\ configFile # ""
    /\ err = "readerr"
    /\ exitStatus = 1

\* ---- Tracer.StartSpan ----

\* C4: a span started with customSpanStart(t), t not the zero time, has
\* Start = t, root span or child span.
C4_CustomStartIsSpanStart ==
    (last.op = "StartSpan" /\ last.sso.StartTime # 0)
        => last.span.Start = last.sso.StartTime

\* C5: Inject of a *spanContext with a format that is neither Binary nor a
\* text-map format returns ErrUnsupportedFormat and writes nothing to the
\* carrier, whatever the carrier is.
SupportedFormats == {"Binary", "TextMap", "HTTPHeaders"}

C5_UnsupportedFormatIsRejected ==
    (/\ last.op = "Inject"
     /\ last.sm.kind = "spanContext"
     /\ last.format \notin SupportedFormats)
        => (last.err = "ErrUnsupportedFormat" /\ last.after = last.carrier)

\* C6: StartSpan with one ChildOf or FollowsFrom reference to p.Context()
\* builds a parent record with p's TraceId, p's own SpanId and p's Resource,
\* and the child is linked to p within p's trace.
C6_ParentRecordIsReferencedSpan ==
    (/\ last.op = "StartSpan"
     /\ Len(last.sso.References) = 1
     /\ last.sso.References[1].Type \in {"ChildOf", "FollowsFrom"}
     /\ last.sso.References[1].of # 0)
        => LET p == spans[last.sso.References[1].of]
           IN  /\ last.parent.TraceId = p.TraceId
               /\ last.parent.SpanId = p.SpanId
               /\ last.parent.Resource = p.Resource
               /\ last.span.TraceId = p.TraceId
               /\ last.span.ParentId = p.SpanId

\* ---- Span.SetTag / Span.LogFields ----

Occurrences(seq, x) == Cardinality({i \in DOMAIN seq : seq[i] = x})

SameBag(a, b) ==
    /\ Len(a) = Len(b)
    /\ \A i \in DOMAIN a : Occurrences(a, a[i]) = Occurrences(b, a[i])

RECURSIVE IssuedTags(_)
IssuedTags(calls_) ==
    IF calls_ = <<>> THEN <<>> ELSE Head(calls_).tag \o IssuedTags(Tail(calls_))

RECURSIVE IssuedFields(_)
IssuedFields(calls_) ==
    IF calls_ = <<>> THEN <<>> ELSE Head(calls_).fields \o IssuedFields(Tail(calls_))

AllReturned == \A t \in Tasks : task[t].pc = "idle"

\* C7: when every concurrent SetTag and LogFields call on the span has
\* returned, Tags holds exactly one tag per SetTag call and logLines every
\* field of every LogFields call: no append is lost or overwritten.
C7_NoAppendIsLost ==
    AllReturned
        => /\ SameBag(sTags, IssuedTags(issued))
           /\ SameBag(sLogLines, IssuedFields(issued))

\* ---- worker ----

\* The sample with this identity was folded into an accumulator of map m.
InMap(id, m) == \E k \in DOMAIN m : id \in m[k].ids

RECURSIVE WindowOf(_, _)
WindowOf(l, e) ==
    IF l = <<>> THEN <<>>
    ELSE IF Head(l).epoch = e THEN <<Head(l).s>> \o WindowOf(Tail(l), e)
    ELSE WindowOf(Tail(l), e)

Window == WindowOf(log, Len(returned))

ArrivalOrders(n) ==
    {q \in [1..n -> 1..n] : \A i, j \in 1..n : i # j => q[i] # q[j]}

\* The sequential fold of samples, from an empty map.
RECURSIVE FoldAll(_, _)
FoldAll(m, samples) ==
    IF samples = <<>> THEN m ELSE FoldAll(Fold(m, Head(samples)), Tail(samples))

Reordered(samples, q) == [i \in DOMAIN samples |-> samples[q[i]]]

CommutativeKinds == {"Counter", "Set", "Histogram", "Timer"}

\* The last sample of the sequence with this key.
LastWith(samples, k) ==
    LET is == {i \in DOMAIN samples : MetricKey(samples[i]) = k}
    IN  samples[CHOOSE i \in is : \A j \in is : j <= i]

====
